---- MODULE Spec2Model ----
(***************************************************************************)
(* Model of seed/tasks.py: the chunked, progress-tracked import pipeline    *)
(* (save raw data -> map -> match), remapping and the organization purge.   *)
(*                                                                         *)
(* One import file of one organization is followed.  Building snapshots    *)
(* are kept as counts per kind; the Celery queue is a bag of task          *)
(* messages executed by a worker pool in any order; a chord is a counter   *)
(* per fan-out whose callback is queued when its last header task ends.    *)
(* Progress values are Python floats in the code; here they are exact      *)
(* rationals <<numerator, denominator>> in lowest terms.                   *)
(***************************************************************************)
EXTENDS Integers, FiniteSets, Sequences, Bags, TLC

VARIABLES
    source_type,          \* ImportFile.source_type
    file_rows,            \* number of rows the parser yields for the file
    raw_save_done,        \* ImportFile.raw_save_done
    mapping_done,         \* ImportFile.mapping_done
    matching_done,        \* ImportFile.matching_done
    mapping_completion,   \* ImportFile.mapping_completion (NoneVal = None)
    num_rows,             \* ImportFile.num_rows
    import_record_status, \* ImportRecord.status
    snapshots,            \* BuildingSnapshot rows of the organization, per kind
    canonical_buildings,  \* number of active CanonicalBuilding rows
    cache,                \* django cache: progress key -> value
    queue,                \* bag of task messages waiting for a worker
    waiting,              \* bag of delayed (countdown/expires) messages
    chords,               \* chord bookkeeping per fan-out
    kicks,                \* kickoff requests the environment may still issue
    ret,                  \* what the handler that ran last returned
    call                  \* the last call of a helper or of a standalone task

\* the state of the import pipeline
pipeline_vars ==
    <<source_type, file_rows, raw_save_done, mapping_done, matching_done,
      mapping_completion, num_rows, import_record_status, snapshots,
      canonical_buildings, cache, queue, waiting, chords, kicks, ret>>

vars == <<pipeline_vars, call>>

(***************************************************************************)
(* Bounds of the model                                                     *)
(***************************************************************************)
MaxChunks == 2
MaxKickoffs == 2
MaxChords == 2
MaxRequeues == 3

(***************************************************************************)
(* Program constants                                                       *)
(***************************************************************************)
BATCH_SIZE == 100
MATCH_COUNTDOWN == 10
MATCH_EXPIRES == 20
MAP_COUNTDOWN == 60
MAP_EXPIRES == 120
NoneVal == -1

(***************************************************************************)
(* Exact rational arithmetic for the progress values                       *)
(***************************************************************************)
RECURSIVE GCD(_, _)
GCD(a, b) == IF b = 0 THEN a ELSE GCD(b, a % b)

Rat(n, d) == LET g == GCD(n, d) IN <<n \div g, d \div g>>

RatAdd(x, y) == Rat(x[1] * y[2] + y[1] * x[2], x[2] * y[2])

RatLE(x, y) == x[1] * y[2] <= y[1] * x[2]

Zero == <<0, 1>>
Hundred == <<100, 1>>

(***************************************************************************)
(* mcm.utils.batch: consecutive chunks of at most c items                  *)
(***************************************************************************)
batch_count(n, c) == (n + c - 1) \div c

batch_len(n, c, j) == IF j < batch_count(n, c) THEN c ELSE n - c * (j - 1)

(***************************************************************************)
(* Task messages                                                           *)
(***************************************************************************)
Stages == {"save_raw_data", "map_data", "delete_organization_buildings"}
Keys == Stages \cup {"match_buildings"}
STATUS_READY_TO_MERGE == "ready_to_merge"

Tsk(name) ==
    [name |-> name, chord |-> 0, size |-> 0, inc |-> Zero, i |-> 0,
     pc |-> "start", gen |-> 0,
     rd |-> FALSE, md |-> FALSE, xd |-> FALSE, mc |-> 0]

Put(B, t) == B (+) SetToBag({t})
Take(B, t) == B (-) SetToBag({t})
PutN(B, t, n) == IF n = 0 THEN B ELSE B (+) [e \in {t} |-> n]

NoChord == [total |-> 0, done |-> 0, fin |-> 0, contrib |-> Zero]

\* get_prog_key(stage, pk): one file and one organization, so the key is
\* the stage name
get_prog_key(stage) == stage

\* the first unused chord slot of a stage (0 when none is left)
FreeChord(stage) ==
    IF \E c \in 1..MaxChords : chords[stage][c].total = 0
    THEN CHOOSE c \in 1..MaxChords :
            /\ chords[stage][c].total = 0
            /\ \A b \in 1..(c - 1) : chords[stage][b].total # 0
    ELSE 0

(***************************************************************************)
(* Progress tracker                                                        *)
(***************************************************************************)
\* cache.set(key, value)
cache_set(c, key, value) == [c EXCEPT ![key] = value]

\* a tracker whose increment stops at 100
increment_cache_clamped(c, key, increment) ==
    [c EXCEPT ![key] = IF RatLE(Hundred, RatAdd(c[key], increment))
                       THEN Hundred ELSE RatAdd(c[key], increment)]

\* increment_cache(key, increment): atomically adds the increment to the
\* stored value; the tracker does not clamp
increment_cache(c, key, increment) ==
    [c EXCEPT ![key] = RatAdd(c[key], increment)]

\* add_cache_increment_parameter: the increment handed to each of n tasks
add_cache_increment_parameter(n) ==
    LET denom == IF n = 0 THEN 1 ELSE n IN Rat(100, denom)

(***************************************************************************)
(* Inputs                                                                  *)
(***************************************************************************)
RowCounts == {0, 50, 100 * MaxChunks - 50}
SourceTypes == {"Assessed Raw", "Green Button Raw"}
ChunkSizes == {BATCH_SIZE, 2 * BATCH_SIZE}

\* a stage handler returns a status object
Return(op, status, message) ==
    ret' = [op |-> op, status |-> status, message |-> message]

\* no helper and no standalone task has been called
NoCall == [op |-> "idle"]

\* a task whose result nobody reads (a chunk, a continuation) ends
NoReturn == [op |-> "", status |-> "none", message |-> ""]
ReturnNone == ret' = NoReturn

\* the chord of a finished fan-out of n items
DoneChord(n) ==
    LET k == batch_count(n, BATCH_SIZE)
    IN  [total |-> k, done |-> k, fin |-> 1, contrib |-> Hundred]

\* an import file that has just been uploaded
InitNew ==
    /\ source_type \in SourceTypes
    /\ file_rows \in RowCounts
    /\ source_type = "Green Button Raw" => file_rows = 0
    /\ raw_save_done = FALSE
    /\ mapping_done = FALSE
    /\ import_record_status = "new"
    /\ num_rows = 0
    /\ snapshots = [raw |-> 0, unmatched |-> 0, promoted |-> 0,
                    merged |-> 0, composite |-> 0]
    /\ cache = [k \in Keys |-> Zero]
    /\ chords = [s \in Stages |-> [c \in 1..MaxChords |-> NoChord]]

\* an import file whose rows have been saved by one complete run of
\* save_raw_data: the state finish_raw_save leaves behind
InitSaved ==
    /\ source_type = "Assessed Raw"
    /\ file_rows \in RowCounts \ {0}
    /\ raw_save_done = TRUE
    /\ mapping_done = FALSE
    /\ import_record_status = "new"
    /\ num_rows = file_rows
    /\ snapshots = [raw |-> file_rows, unmatched |-> 0, promoted |-> 0,
                    merged |-> 0, composite |-> 0]
    /\ cache = [k \in Keys |->
                  IF k = "save_raw_data" THEN Hundred ELSE Zero]
    /\ chords = [s \in Stages |-> [c \in 1..MaxChords |->
                  IF s = "save_raw_data" /\ c = 1 THEN DoneChord(file_rows)
                  ELSE NoChord]]

\* an import file whose rows have been saved and then mapped by one complete
\* run of map_data: the state finish_mapping leaves behind
InitMapped ==
    /\ source_type = "Assessed Raw"
    /\ file_rows \in RowCounts \ {0}
    /\ raw_save_done = TRUE
    /\ mapping_done = TRUE
    /\ import_record_status = STATUS_READY_TO_MERGE
    /\ num_rows = file_rows
    /\ snapshots = [raw |-> file_rows, unmatched |-> file_rows,
                    promoted |-> 0, merged |-> 0, composite |-> 0]
    /\ cache = [k \in Keys |->
                  IF k \in {"save_raw_data", "map_data"} THEN Hundred
                  ELSE Zero]
    /\ chords = [s \in Stages |-> [c \in 1..MaxChords |->
                  IF s \in {"save_raw_data", "map_data"} /\ c = 1
                  THEN DoneChord(file_rows) ELSE NoChord]]

InitFile ==
    /\ InitNew \/ InitSaved \/ InitMapped
    /\ matching_done = FALSE
    /\ mapping_completion = NoneVal
    /\ canonical_buildings \in {0, 1}
    /\ queue = EmptyBag
    /\ waiting = EmptyBag
    /\ ret = NoReturn
    /\ call = NoCall

\* the environment issues at most MaxKickoffs requests
Init == InitFile /\ kicks = MaxKickoffs

\* the same with one more request
InitDeep == InitFile /\ kicks = MaxKickoffs + 1

(***************************************************************************)
(* Environment: kickoff requests.  kicks is the number of requests the     *)
(* environment may still issue; the organization purge is the last request *)
(* and is issued when no import task is outstanding.                       *)
(***************************************************************************)
CanKick == kicks > 0

Kick(op) ==
    kicks' = IF op = "delete_organization_buildings" THEN 0 ELSE kicks - 1

(***************************************************************************)
(* Chords: chord(tasks)(callback) queues the callback once, when the last  *)
(* header task has ended                                                   *)
(***************************************************************************)
\* chord creation: n header tasks, none done
chord_open(ch, stage, c, n) ==
    [ch EXCEPT ![stage][c] = [total |-> n, done |-> 0, fin |-> 0,
                              contrib |-> Zero]]

\* a header task of chord c ended after adding inc to the progress value
chord_header_done(ch, stage, c, inc) ==
    [ch EXCEPT ![stage][c].done = @ + 1,
               ![stage][c].contrib = RatAdd(@, inc)]

\* (mutant) the callback is released as soon as one header task has ended
chord_complete_first(ch, stage, c) == ch[stage][c].done >= 1

\* the chord is complete once every header task has ended
chord_complete(ch, stage, c) == ch[stage][c].done = ch[stage][c].total

\* the header tasks of one fan-out: n items in chunks of at most size c,
\* every task carrying the same increment
chunk_tasks(name, c, n, size, inc) ==
    LET k == batch_count(n, size)
        full == [Tsk(name) EXCEPT !.chord = c, !.size = size, !.inc = inc]
        last == [Tsk(name) EXCEPT !.chord = c,
                                  !.size = batch_len(n, size, k), !.inc = inc]
    IN  Put(PutN(EmptyBag, full, k - 1), last)

(***************************************************************************)
(* Saving raw data                                                         *)
(***************************************************************************)
\* save_raw_data: the kickoff only queues _save_raw_data
save_raw_data ==
    /\ CanKick
    /\ Kick("save_raw_data")
    /\ queue' = Put(queue, Tsk("_save_raw_data"))
    /\ Return("save_raw_data", "success", "")
    /\ UNCHANGED <<call, source_type, file_rows, raw_save_done, mapping_done,
                   matching_done, mapping_completion, num_rows,
                   import_record_status, snapshots, canonical_buildings,
                   cache, waiting, chords>>

\* which branch _save_raw_data takes
_save_raw_data_branch ==
    IF raw_save_done THEN "done"
    ELSE IF source_type = "Green Button Raw" THEN "green_button"
    ELSE "chunks"

\* _save_raw_data, CSV branch: one chunk task per batch of 100 rows joined
\* by a chord; with no rows finish_raw_save.task(file_pk) is evaluated, which
\* does not run finish_raw_save(results, file_pk) and raises
_save_raw_data_chunks(t) ==
    LET k == batch_count(file_rows, BATCH_SIZE)
        c == FreeChord("save_raw_data")
        inc == add_cache_increment_parameter(k)
    IN  /\ num_rows' = file_rows
        /\ IF k > 0
           THEN /\ c # 0
                /\ chords' = chord_open(chords, "save_raw_data", c, k)
                /\ queue' = Take(queue, t) (+)
                       chunk_tasks("_save_raw_data_chunk", c, file_rows,
                                   BATCH_SIZE, inc)
                /\ Return("_save_raw_data", "success", "")
           ELSE /\ queue' = Take(queue, t)
                /\ Return("_save_raw_data", "raised", "finish_raw_save.task")
                /\ UNCHANGED chords
        /\ UNCHANGED <<raw_save_done, cache, snapshots>>

\* _save_raw_green_button_data up to import_file.save(): the flag is stored
\* before the XML is imported
_save_raw_green_button_data_flag(t) ==
    /\ raw_save_done' = TRUE
    /\ queue' = Put(Take(queue, t),
                    [Tsk("_save_raw_green_button_data") EXCEPT
                        !.pc = "import_xml"])
    /\ Return("_save_raw_green_button_data", "running", "")
    /\ UNCHANGED <<num_rows, chords, cache, snapshots>>

_save_raw_data ==
    \E t \in BagToSet(queue) :
        /\ t.name = "_save_raw_data"
        /\ CASE _save_raw_data_branch = "done" ->
                  /\ queue' = Take(queue, t)
                  /\ Return("_save_raw_data", "warning",
                            "raw data already saved")
                  /\ UNCHANGED <<raw_save_done, num_rows, chords, cache,
                                 snapshots>>
             [] _save_raw_data_branch = "green_button" ->
                  _save_raw_green_button_data_flag(t)
             [] OTHER -> _save_raw_data_chunks(t)
        /\ UNCHANGED <<call, source_type, file_rows, mapping_done, matching_done,
                       mapping_completion, import_record_status,
                       canonical_buildings, waiting, kicks>>

\* _save_raw_green_button_data from xml_importer.import_xml on: the importer
\* stores the building snapshot of the file (or fails), then progress is 100
_save_raw_green_button_data ==
    \E t \in BagToSet(queue), res \in BOOLEAN :
        /\ t.name = "_save_raw_green_button_data"
        /\ t.pc = "import_xml"
        /\ queue' = Take(queue, t)
        /\ snapshots' = IF res THEN [snapshots EXCEPT !.raw = @ + 1]
                        ELSE snapshots
        /\ cache' = cache_set(cache, get_prog_key("save_raw_data"), Hundred)
        /\ IF res THEN Return("_save_raw_green_button_data", "success", "")
           ELSE Return("_save_raw_green_button_data", "error",
                       "data failed to import")
        /\ UNCHANGED <<call, source_type, file_rows, raw_save_done, mapping_done,
                       matching_done, mapping_completion, num_rows,
                       import_record_status, canonical_buildings, waiting,
                       chords, kicks>>

\* the callback of a complete chord is queued
chord_callback(q, ch, stage, c, callback) ==
    IF chord_complete(ch, stage, c)
    THEN Put(q, [Tsk(callback) EXCEPT !.chord = c])
    ELSE q

\* _save_raw_data_chunk: one raw snapshot per row, then the increment
_save_raw_data_chunk ==
    \E t \in BagToSet(queue) :
        /\ t.name = "_save_raw_data_chunk"
        /\ snapshots' = [snapshots EXCEPT !.raw = @ + t.size]
        /\ cache' = increment_cache(cache, get_prog_key("save_raw_data"),
                                    t.inc)
        /\ chords' = chord_header_done(chords, "save_raw_data", t.chord,
                                       t.inc)
        /\ queue' = chord_callback(Take(queue, t), chords', "save_raw_data",
                                   t.chord, "finish_raw_save")
        /\ ReturnNone
        /\ UNCHANGED <<call, source_type, file_rows, raw_save_done, mapping_done,
                       matching_done, mapping_completion, num_rows,
                       import_record_status, canonical_buildings, waiting,
                       kicks>>

\* finish_raw_save: the flag, then progress 100
finish_raw_save ==
    \E t \in BagToSet(queue) :
        /\ t.name = "finish_raw_save"
        /\ raw_save_done' = TRUE
        /\ cache' = cache_set(cache, get_prog_key("save_raw_data"), Hundred)
        /\ chords' = [chords EXCEPT !["save_raw_data"][t.chord].fin = @ + 1]
        /\ queue' = Take(queue, t)
        /\ ReturnNone
        /\ UNCHANGED <<call, source_type, file_rows, mapping_done, matching_done,
                       mapping_completion, num_rows, import_record_status,
                       snapshots, canonical_buildings, waiting, kicks>>

(***************************************************************************)
(* Delayed messages: apply_async(countdown, expires).  The clock is not    *)
(* modelled: a delayed message is either delivered (some time after its    *)
(* countdown and before its expiry) or discarded by the worker (received   *)
(* after its expiry).  Each message carries the number of re-invocations   *)
(* that precede it in its chain: the message queued by the kickoff has     *)
(* gen 0, the one queued by its delivery gen 1, and so on; a message of    *)
(* gen g is queued no earlier than g countdowns after the kickoff.         *)
(***************************************************************************)
Msg(stage, gen) == [stage |-> stage, gen |-> gen]

\* apply_async(countdown=.., expires=..) by the gen-th invocation of a chain
apply_async(w, stage, gen) == Put(w, Msg(stage, gen))

\* earliest time, in seconds after the kickoff, at which message m can have
\* been queued
QueuedAfter(m) ==
    m.gen * (IF m.stage = "match_buildings" THEN MATCH_COUNTDOWN
             ELSE MAP_COUNTDOWN)

\* the validity window of a message
Validity(m) ==
    IF m.stage = "match_buildings" THEN MATCH_EXPIRES ELSE MAP_EXPIRES

\* a worker receives a message past its expiry and discards it
Expire ==
    \E m \in BagToSet(waiting) :
        /\ waiting' = Take(waiting, m)
        /\ ReturnNone
        /\ UNCHANGED <<call, source_type, file_rows, raw_save_done, mapping_done,
                       matching_done, mapping_completion, num_rows,
                       import_record_status, snapshots, canonical_buildings,
                       cache, queue, chords, kicks>>

(***************************************************************************)
(* Mapping                                                                 *)
(***************************************************************************)
\* the body of map_data: _map_data.delay(file_pk)
map_data_body(q, gen) == Put(q, [Tsk("_map_data") EXCEPT !.gen = gen])

\* map_data, requested by a user or run from its delayed message
map_data ==
    /\ \/ /\ CanKick
          /\ Kick("map_data")
          /\ queue' = map_data_body(queue, 0)
          /\ UNCHANGED waiting
       \/ \E m \in BagToSet(waiting) :
             /\ m.stage = "map_data"
             /\ waiting' = Take(waiting, m)
             /\ queue' = map_data_body(queue, m.gen + 1)
             /\ UNCHANGED kicks
    /\ Return("map_data", "succuss", "")
    /\ UNCHANGED <<call, source_type, file_rows, raw_save_done, mapping_done,
                   matching_done, mapping_completion, num_rows,
                   import_record_status, snapshots, canonical_buildings,
                   cache, chords>>

\* (mutant) _map_data without its raw_save_done gate
_map_data_branch_nowait == IF mapping_done THEN "done" ELSE "chunks"

\* which branch _map_data takes
_map_data_branch ==
    IF mapping_done THEN "done"
    ELSE IF ~raw_save_done THEN "wait"
    ELSE "chunks"

\* _map_data past its two gates: one map_row_chunk per batch of 100 raw
\* snapshots joined by a chord; with no raw snapshot
\* finish_mapping.task(file_pk) is evaluated, which does not run
\* finish_mapping(results, file_pk) and raises
_map_data_chunks(t) ==
    LET n == snapshots.raw
        k == batch_count(n, BATCH_SIZE)
        c == FreeChord("map_data")
        inc == add_cache_increment_parameter(k)
    IN  IF k > 0
        THEN /\ c # 0
             /\ chords' = chord_open(chords, "map_data", c, k)
             /\ queue' = Take(queue, t) (+)
                    chunk_tasks("map_row_chunk", c, n, BATCH_SIZE, inc)
             /\ Return("_map_data", "success", "")
        ELSE /\ queue' = Take(queue, t)
             /\ Return("_map_data", "raised", "finish_mapping.task")
             /\ UNCHANGED chords

_map_data ==
    \E t \in BagToSet(queue) :
        /\ t.name = "_map_data"
        /\ CASE _map_data_branch = "done" ->
                  /\ cache' = cache_set(cache, get_prog_key("map_data"),
                                        Hundred)
                  /\ queue' = Take(queue, t)
                  /\ Return("_map_data", "warning",
                            "mapping already complete")
                  /\ UNCHANGED <<waiting, chords>>
             [] _map_data_branch = "wait" ->
                  /\ t.gen <= MaxRequeues
                  /\ waiting' = apply_async(waiting, "map_data", t.gen)
                  /\ queue' = Take(queue, t)
                  /\ Return("_map_data", "error",
                            "waiting for raw data save.")
                  /\ UNCHANGED <<cache, chords>>
             [] OTHER ->
                  /\ _map_data_chunks(t)
                  /\ UNCHANGED <<cache, waiting>>
        /\ UNCHANGED <<call, source_type, file_rows, raw_save_done, mapping_done,
                       matching_done, mapping_completion, num_rows,
                       import_record_status, snapshots, canonical_buildings,
                       kicks>>

\* map_row_chunk: one mapped snapshot per row of the chunk, then the
\* increment
map_row_chunk ==
    \E t \in BagToSet(queue) :
        /\ t.name = "map_row_chunk"
        /\ snapshots' = [snapshots EXCEPT !.unmatched = @ + t.size]
        /\ cache' = increment_cache(cache, get_prog_key("map_data"), t.inc)
        /\ chords' = chord_header_done(chords, "map_data", t.chord, t.inc)
        /\ queue' = chord_callback(Take(queue, t), chords', "map_data",
                                   t.chord, "finish_mapping")
        /\ ReturnNone
        /\ UNCHANGED <<call, source_type, file_rows, raw_save_done, mapping_done,
                       matching_done, mapping_completion, num_rows,
                       import_record_status, canonical_buildings, waiting,
                       kicks>>

\* finish_mapping: the flag, finish_import_record, then progress 100
finish_mapping ==
    \E t \in BagToSet(queue) :
        /\ t.name = "finish_mapping"
        /\ mapping_done' = TRUE
        /\ import_record_status' = STATUS_READY_TO_MERGE
        /\ cache' = cache_set(cache, get_prog_key("map_data"), Hundred)
        /\ chords' = [chords EXCEPT !["map_data"][t.chord].fin = @ + 1]
        /\ queue' = Take(queue, t)
        /\ ReturnNone
        /\ UNCHANGED <<call, source_type, file_rows, raw_save_done, matching_done,
                       mapping_completion, num_rows, snapshots,
                       canonical_buildings, waiting, kicks>>

(***************************************************************************)
(* Matching                                                                *)
(***************************************************************************)
\* (mutant) match_buildings without its matching_done check
match_buildings_branch_nodone ==
    IF ~mapping_done THEN "wait" ELSE "dispatch"

\* which branch match_buildings takes
match_buildings_branch ==
    IF matching_done THEN "done"
    ELSE IF ~mapping_done THEN "wait"
    ELSE "dispatch"

\* the body of match_buildings, run as the gen-th invocation of its chain;
\* w is the bag of delayed messages without the one being run
match_buildings_body(w, gen) ==
    CASE match_buildings_branch = "done" ->
           /\ cache' = cache_set(cache, get_prog_key("match_buildings"),
                                 Hundred)
           /\ waiting' = w
           /\ Return("match_buildings", "warning",
                     "matching already complete")
           /\ UNCHANGED queue
      [] match_buildings_branch = "wait" ->
           /\ gen <= MaxRequeues
           /\ waiting' = apply_async(w, "match_buildings", gen)
           /\ Return("match_buildings", "error",
                     "waiting for mapping to complete")
           /\ UNCHANGED <<cache, queue>>
      [] OTHER ->
           /\ queue' = Put(queue, [Tsk("_match_buildings") EXCEPT
                                       !.gen = gen])
           /\ waiting' = w
           /\ Return("match_buildings", "success", "")
           /\ UNCHANGED cache

\* match_buildings, requested by a user or run from its delayed message
match_buildings ==
    /\ \/ /\ CanKick
          /\ Kick("match_buildings")
          /\ match_buildings_body(waiting, 0)
       \/ \E m \in BagToSet(waiting) :
             /\ m.stage = "match_buildings"
             /\ match_buildings_body(Take(waiting, m), m.gen + 1)
             /\ UNCHANGED kicks
    /\ UNCHANGED <<call, source_type, file_rows, raw_save_done, mapping_done,
                   matching_done, mapping_completion, num_rows,
                   import_record_status, snapshots, canonical_buildings,
                   chords>>

Min(a, b) == IF a < b THEN a ELSE b

\* how many of the n unmatched snapshots the exact-identifier pass merges:
\* none without canonical snapshots, otherwise none or all of them
IdMatchCounts(n) == IF canonical_buildings = 0 THEN {0} ELSE {0, n}

\* n unmatched snapshots are merged: each becomes a parent and each merge
\* stores one merge result
merge_rows(snap, n) ==
    LET k == Min(n, snap.unmatched)
    IN  [snap EXCEPT !.unmatched = @ - k, !.merged = @ + k,
                     !.composite = @ + k]

\* n unmatched snapshots become canonical snapshots of their own
promote_rows(snap, n) ==
    LET k == Min(n, snap.unmatched)
    IN  [snap EXCEPT !.unmatched = @ - k, !.promoted = @ + k]

\* _match_buildings progress step: increment * 100 with
\* increment = 1.0 / num_unmatched * 100
match_increment(num_unmatched) ==
    LET n == IF num_unmatched = 0 THEN 1 ELSE num_unmatched
    IN  Rat(100 * 100, n)

\* a run that takes the n-gram branch whatever the organization holds
has_canonical_buildings_always == TRUE

\* find_canonical_building_values(org) is not empty
has_canonical_buildings == canonical_buildings # 0

\* _match_buildings up to its loop: the exact-identifier pass over all
\* unmatched snapshots, then either _finish_matching (nothing left) or the
\* choice of the loop (promotion without canonical buildings, n-gram search
\* otherwise).  The ImportFile object read here is written back whole by
\* every later import_file.save() of the run.
_match_buildings_start ==
    \E t \in BagToSet(queue) :
        /\ t.name = "_match_buildings"
        /\ t.pc = "start"
        /\ \E m \in IdMatchCounts(snapshots.unmatched) :
            LET left == snapshots.unmatched - m
                fuzzy == has_canonical_buildings
                run == [t EXCEPT !.pc = IF fuzzy THEN "fuzzy" ELSE "promote",
                                 !.size = left,
                                 !.inc = match_increment(left),
                                 !.rd = raw_save_done,
                                 !.md = mapping_done,
                                 !.xd = matching_done,
                                 !.mc = IF fuzzy THEN 0
                                        ELSE mapping_completion]
            IN  /\ snapshots' = merge_rows(snapshots, m)
                /\ IF left = 0
                   THEN /\ matching_done' = TRUE
                        /\ mapping_completion' = 100
                        /\ cache' = cache_set(cache,
                              get_prog_key("match_buildings"), Hundred)
                        /\ queue' = Take(queue, t)
                        /\ Return("_match_buildings", "none", "")
                   ELSE /\ mapping_completion' =
                              IF fuzzy THEN 0 ELSE mapping_completion
                        /\ queue' = Put(Take(queue, t), run)
                        /\ Return("_match_buildings", "running", "")
                        /\ UNCHANGED <<matching_done, cache>>
        /\ UNCHANGED <<call, source_type, file_rows, raw_save_done, mapping_done,
                       num_rows, import_record_status, canonical_buildings,
                       waiting, chords, kicks>>

\* the loop of _match_buildings from an index i with i % 100 = 0 up to the
\* next such index: the snapshot at i is handled, progress is incremented,
\* then the following 99 are handled.  Without canonical buildings every
\* snapshot is promoted; otherwise each block is merged with its top n-gram
\* result or promoted (no result over the threshold), and the loop also
\* stores mapping_completion with import_file.save().
_match_buildings_loop ==
    \E t \in BagToSet(queue), hit \in BOOLEAN :
        /\ t.name = "_match_buildings"
        /\ t.pc \in {"promote", "fuzzy"}
        /\ t.pc = "promote" => ~hit
        /\ LET b == Min(BATCH_SIZE, t.size - t.i)
               mc == t.mc + ((100 * 100) \div t.size)
               nxt == [t EXCEPT !.i = @ + BATCH_SIZE,
                                !.mc = IF t.pc = "fuzzy" THEN mc ELSE @,
                                !.pc = IF t.i + BATCH_SIZE >= t.size
                                       THEN IF t.pc = "fuzzy"
                                            THEN "finish_fuzzy"
                                            ELSE "finish_promote"
                                       ELSE @]
           IN  /\ snapshots' = IF hit THEN merge_rows(snapshots, b)
                               ELSE promote_rows(snapshots, b)
               /\ canonical_buildings' =
                     IF hit THEN canonical_buildings
                     ELSE canonical_buildings + b
               /\ cache' = increment_cache(cache,
                              get_prog_key("match_buildings"), t.inc)
               /\ IF t.pc = "fuzzy"
                  THEN /\ mapping_completion' = mc
                       /\ raw_save_done' = t.rd
                       /\ mapping_done' = t.md
                       /\ matching_done' = t.xd
                  ELSE UNCHANGED <<mapping_completion, raw_save_done,
                                   mapping_done, matching_done>>
               /\ queue' = Put(Take(queue, t), nxt)
        /\ Return("_match_buildings", "running", "")
        /\ UNCHANGED <<call, source_type, file_rows, num_rows,
                       import_record_status, waiting, chords, kicks>>

\* _finish_matching at the end of either loop: the flag and
\* mapping_completion = 100 are stored with the ImportFile object the run
\* read at its start, then progress 100
_finish_matching ==
    \E t \in BagToSet(queue) :
        /\ t.name = "_match_buildings"
        /\ t.pc \in {"finish_promote", "finish_fuzzy"}
        /\ matching_done' = TRUE
        /\ mapping_completion' = 100
        /\ raw_save_done' = t.rd
        /\ mapping_done' = t.md
        /\ cache' = cache_set(cache, get_prog_key("match_buildings"),
                              Hundred)
        /\ queue' = Take(queue, t)
        /\ IF t.pc = "finish_fuzzy"
           THEN Return("_match_buildings", "success", "")
           ELSE Return("_match_buildings", "none", "")
        /\ UNCHANGED <<call, source_type, file_rows, num_rows,
                       import_record_status, snapshots, canonical_buildings,
                       waiting, chords, kicks>>

(***************************************************************************)
(* Remapping                                                               *)
(***************************************************************************)
\* ImportFile.matching_completion is assigned nowhere in tasks.py
matching_completion == NoneVal

\* which branch remap_data takes
remap_data_branch ==
    IF matching_done \/ matching_completion \notin {NoneVal, 0}
    THEN "merged" ELSE "remap"

\* remap_data: refuses once matching is done, otherwise queues _remap_data
\* and then resets the mapping progress to 0
remap_data ==
    /\ CanKick
    /\ Kick("remap_data")
    /\ IF remap_data_branch = "merged"
       THEN /\ cache' = cache_set(cache, get_prog_key("map_data"), Hundred)
            /\ Return("remap_data", "warning",
                      "Mapped buildings already merged")
            /\ UNCHANGED queue
       ELSE /\ queue' = Put(queue, Tsk("_remap_data"))
            /\ cache' = cache_set(cache, get_prog_key("map_data"), Zero)
            /\ Return("remap_data", "success", "")
    /\ UNCHANGED <<call, source_type, file_rows, raw_save_done, mapping_done,
                   matching_done, mapping_completion, num_rows,
                   import_record_status, snapshots, canonical_buildings,
                   waiting, chords>>

\* _remap_data: the mapped snapshots of the file that have no child are
\* deleted, the mapping flag and completion are cleared, and map_data is
\* called
_remap_data ==
    \E t \in BagToSet(queue) :
        /\ t.name = "_remap_data"
        /\ snapshots' = [snapshots EXCEPT !.unmatched = 0, !.promoted = 0]
        /\ mapping_done' = FALSE
        /\ mapping_completion' = NoneVal
        /\ queue' = map_data_body(Take(queue, t), 0)
        /\ ReturnNone
        /\ UNCHANGED <<call, source_type, file_rows, raw_save_done, matching_done,
                       num_rows, import_record_status, canonical_buildings,
                       cache, waiting, chords, kicks>>

(***************************************************************************)
(* Organization purge                                                      *)
(***************************************************************************)
\* a count that sees the raw snapshots only
SnapshotCountRaw(snap) == snap.raw

SnapshotCount(snap) ==
    snap.raw + snap.unmatched + snap.promoted + snap.merged + snap.composite

\* n snapshot rows are deleted, taken kind by kind
RECURSIVE delete_from(_, _, _)
delete_from(snap, kinds, n) ==
    IF n = 0 \/ kinds = <<>> THEN snap
    ELSE LET f == Head(kinds)
             k == Min(n, snap[f])
         IN  delete_from([snap EXCEPT ![f] = @ - k], Tail(kinds), n - k)

delete_rows(snap, n) ==
    delete_from(snap, <<"raw", "unmatched", "promoted", "merged",
                        "composite">>, n)

Quiescent == queue = EmptyBag /\ waiting = EmptyBag

\* delete_organization_buildings: the kickoff only queues
\* _delete_organization_buildings, passing chunk_size on
delete_organization_buildings ==
    \E chunk_size \in ChunkSizes :
        /\ CanKick
        /\ Quiescent
        /\ Kick("delete_organization_buildings")
        /\ queue' = Put(queue, [Tsk("_delete_organization_buildings")
                                   EXCEPT !.size = chunk_size])
        /\ Return("delete_organization_buildings", "success", "")
        /\ UNCHANGED <<call, source_type, file_rows, raw_save_done, mapping_done,
                       matching_done, mapping_completion, num_rows,
                       import_record_status, snapshots, canonical_buildings,
                       cache, waiting, chords>>

\* the progress step of every deletion chunk: step * 100 with
\* step = float(chunk_size) / len(ids)
delete_increment(chunk_size, n) == Rat(chunk_size * 100, n)

\* _delete_organization_buildings: progress 100 at once without snapshots;
\* otherwise _delete_canonical_buildings is queued on its own, progress is
\* reset to 0 and one chunk task per batch of ids is joined by a chord
_delete_organization_buildings ==
    \E t \in BagToSet(queue) :
        /\ t.name = "_delete_organization_buildings"
        /\ LET n == SnapshotCount(snapshots)
               k == batch_count(n, t.size)
               c == FreeChord("delete_organization_buildings")
           IN  IF n = 0
               THEN /\ cache' = cache_set(cache,
                         get_prog_key("delete_organization_buildings"),
                         Hundred)
                    /\ queue' = Take(queue, t)
                    /\ UNCHANGED chords
               ELSE /\ c # 0
                    /\ cache' = cache_set(cache,
                         get_prog_key("delete_organization_buildings"), Zero)
                    /\ chords' = chord_open(chords,
                         "delete_organization_buildings", c, k)
                    /\ queue' = Put(Take(queue, t),
                           [Tsk("_delete_canonical_buildings") EXCEPT
                               !.size = canonical_buildings])
                         (+) chunk_tasks(
                               "_delete_organization_buildings_chunk", c, n,
                               t.size, delete_increment(t.size, n))
        /\ ReturnNone
        /\ UNCHANGED <<call, source_type, file_rows, raw_save_done, mapping_done,
                       matching_done, mapping_completion, num_rows,
                       import_record_status, snapshots, canonical_buildings,
                       waiting, kicks>>

\* _delete_organization_buildings_chunk: the rows of the chunk, then the
\* increment
_delete_organization_buildings_chunk ==
    \E t \in BagToSet(queue) :
        /\ t.name = "_delete_organization_buildings_chunk"
        /\ snapshots' = delete_rows(snapshots, t.size)
        /\ cache' = increment_cache(cache,
               get_prog_key("delete_organization_buildings"), t.inc)
        /\ chords' = chord_header_done(chords,
               "delete_organization_buildings", t.chord, t.inc)
        /\ queue' = chord_callback(Take(queue, t), chords',
               "delete_organization_buildings", t.chord, "finish_delete")
        /\ ReturnNone
        /\ UNCHANGED <<call, source_type, file_rows, raw_save_done, mapping_done,
                       matching_done, mapping_completion, num_rows,
                       import_record_status, canonical_buildings, waiting,
                       kicks>>

\* finish_delete: progress 100
finish_delete ==
    \E t \in BagToSet(queue) :
        /\ t.name = "finish_delete"
        /\ cache' = cache_set(cache,
               get_prog_key("delete_organization_buildings"), Hundred)
        /\ chords' = [chords EXCEPT
               !["delete_organization_buildings"][t.chord].fin = @ + 1]
        /\ queue' = Take(queue, t)
        /\ ReturnNone
        /\ UNCHANGED <<call, source_type, file_rows, raw_save_done, mapping_done,
                       matching_done, mapping_completion, num_rows,
                       import_record_status, snapshots, canonical_buildings,
                       waiting, kicks>>

\* _delete_canonical_buildings: the canonical buildings listed at kickoff
_delete_canonical_buildings ==
    \E t \in BagToSet(queue) :
        /\ t.name = "_delete_canonical_buildings"
        /\ canonical_buildings' =
              canonical_buildings - Min(t.size, canonical_buildings)
        /\ queue' = Take(queue, t)
        /\ ReturnNone
        /\ UNCHANGED <<call, source_type, file_rows, raw_save_done, mapping_done,
                       matching_done, mapping_completion, num_rows,
                       import_record_status, snapshots, cache, waiting,
                       chords, kicks>>

(***************************************************************************)
(* Helpers and standalone tasks, followed one call at a time: call holds   *)
(* the arguments and the outcome of the last call.                         *)
(***************************************************************************)
(***************************************************************************)
(* _stringify.  A string is a sequence of characters; None is a value that *)
(* is no string over Chars.                                                *)
(***************************************************************************)
MaxFields == 2
MaxFieldLen == 2

Chars == {"a", "A", "."}
None == <<"None">>

RECURSIVE StringsUpTo(_)
StringsUpTo(n) ==
    IF n = 0 THEN {<< >>}
    ELSE LET S == StringsUpTo(n - 1)
         IN  S \cup {Append(x, c) : x \in S, c \in Chars}

\* a descriptive field of a values_list row: a string or None
FieldValues == StringsUpTo(MaxFieldLen) \cup {None}

RECURSIVE ListsUpTo(_)
ListsUpTo(n) ==
    IF n = 0 THEN {<< >>}
    ELSE LET S == ListsUpTo(n - 1)
         IN  S \cup {Append(x, f) : x \in S, f \in FieldValues}

FieldLists == ListsUpTo(MaxFields)

\* str.lower()
lower_char(c) == IF c = "A" THEN "a" ELSE c

lower(str) == [i \in 1..Len(str) |-> lower_char(str[i])]

\* PUNCT_REGEX: one character of string.punctuation
PUNCT_REGEX(c) == c = "."

\* PUNCT_REGEX.sub('', str)
PUNCT_REGEX_sub(str) == SelectSeq(str, LAMBDA c : ~PUNCT_REGEX(c))

\* "if value": None and the empty string are left out
truthy(value) == value # None /\ value # << >>

\* ' '.join(tokens)
RECURSIVE join(_)
join(tokens) ==
    IF tokens = << >> THEN << >>
    ELSE IF Len(tokens) = 1 THEN tokens[1]
    ELSE tokens[1] \o <<" ">> \o join(Tail(tokens))

\* the tokens of _stringify: every truthy value, lower-cased, without its
\* punctuation
RECURSIVE stringify_tokens(_)
stringify_tokens(values) ==
    IF values = << >> THEN << >>
    ELSE IF truthy(values[1])
         THEN <<PUNCT_REGEX_sub(lower(values[1]))>>
                 \o stringify_tokens(Tail(values))
         ELSE stringify_tokens(Tail(values))

_stringify(values) == join(stringify_tokens(values))

\* _stringify is applied to one list of fields
Call_stringify ==
    /\ call = NoCall
    /\ \E values \in FieldLists :
        /\ call' = [op |-> "_stringify", values |-> values,
                    result |-> _stringify(values)]
        /\ UNCHANGED pipeline_vars

(***************************************************************************)
(* Exact-identifier matching.  An identifier is a string, "" when the     *)
(* record has none; a confidence is kept in hundredths.  The canonical     *)
(* snapshots of the database are a table pk -> row.                        *)
(***************************************************************************)
MaxCanonical == 1

ID_MATCH_CONFIDENCE == 90
SYSTEM_MATCH == "SYSTEM_MATCH"
POSSIBLE_MATCH == "POSSIBLE_MATCH"

Ids == {"", "a", "b"}
Orgs == {1, 2}
IdFields == {"pm_property_id", "tax_lot_id", "custom_id_1"}

\* a BuildingSnapshot row: its organization, whether it is the canonical
\* snapshot of an active CanonicalBuilding, and its three identifiers
SnapshotRows ==
    [super_organization_id : Orgs, active : BOOLEAN,
     pm_property_id : Ids, tax_lot_id : Ids, custom_id_1 : Ids]

\* the rows of the records a matching run works on: the organization's own
UnmatchedRows ==
    {r \in SnapshotRows : r.super_organization_id = 1 /\ ~r.active}

CanonicalPks == 1..MaxCanonical
CanonicalTables == [CanonicalPks -> SnapshotRows]

\* tables of several snapshots, each the canonical snapshot of an active
\* CanonicalBuilding of the organization of the unmatched records
MaxMatches == 2

ActiveTables ==
    [1..MaxMatches ->
        {r \in SnapshotRows : r.super_organization_id = 1 /\ r.active}]

\* get_canonical_snapshots: the pks of the snapshots that are canonical for
\* an active CanonicalBuilding of the organization
get_canonical_snapshots(table, org_id) ==
    {pk \in DOMAIN table :
        table[pk].active /\ table[pk].super_organization_id = org_id}

\* the Q objects appended for one probe identifier
id_params(probe) ==
    IF probe # "" THEN {<<f, probe>> : f \in IdFields} ELSE {}

\* a variant that compares each probe with the field of its own name only
get_canonical_id_matches_samefield(table, org_id, pm_id, tax_id, custom_id) ==
    {pk \in get_canonical_snapshots(table, org_id) :
        \/ pm_id # "" /\ table[pk].pm_property_id = pm_id
        \/ tax_id # "" /\ table[pk].tax_lot_id = tax_id
        \/ custom_id # "" /\ table[pk].custom_id_1 = custom_id}

\* get_canonical_id_matches: the canonical snapshots matching at least one
\* of the Q objects; none when no Q object was built
get_canonical_id_matches(table, org_id, pm_id, tax_id, custom_id) ==
    LET can_snapshots == get_canonical_snapshots(table, org_id)
        params == id_params(pm_id) \cup id_params(tax_id)
                     \cup id_params(custom_id)
    IN  IF params = {} THEN {}
        ELSE {pk \in can_snapshots :
                \E q \in params : table[pk][q[1]] = q[2]}

\* a variant that saves the merge the way handle_results saves a weak one
id_match_possible(can_pk, unmatched_pk) ==
    [can_snap |-> can_pk, unmatched |-> unmatched_pk,
     confidence |-> ID_MATCH_CONFIDENCE, match_type |-> POSSIBLE_MATCH]

\* the save_snapshot_match call of handle_id_matches
id_match(can_pk, unmatched_pk) ==
    [can_snap |-> can_pk, unmatched |-> unmatched_pk,
     confidence |-> ID_MATCH_CONFIDENCE, match_type |-> SYSTEM_MATCH]

\* a variant that merges every match with the original unmatched record
RECURSIVE id_merges_unchained(_, _, _)
id_merges_unchained(matches, unmatched_pk, next_pk) ==
    IF matches = {} THEN << >>
    ELSE LET pk == CHOOSE x \in matches : \A y \in matches : x <= y
         IN  <<id_match(pk, unmatched_pk)>>
                \o id_merges_unchained(matches \ {pk}, unmatched_pk,
                                       next_pk + 1)

\* the loop of handle_id_matches over the matches in pk order: every match
\* is merged with the latest merge result, whose pk is the next free one
RECURSIVE id_merges(_, _, _)
id_merges(matches, unmatched_pk, next_pk) ==
    IF matches = {} THEN << >>
    ELSE LET pk == CHOOSE x \in matches : \A y \in matches : x <= y
         IN  <<id_match(pk, unmatched_pk)>>
                \o id_merges(matches \ {pk}, next_pk, next_pk + 1)

\* handle_id_matches for the unmatched snapshot with pk unmatched_pk:
\* the merges it saves, for each merge the canonical snapshot it sets (the
\* merge result, whose pk is the next free one) and the audit entry it
\* writes for the canonical building of the matched snapshot, and the pk of
\* the snapshot it returns (NoneVal, that is None, without a match)
handle_id_matches(table, unmatched_bs, unmatched_pk) ==
    LET id_matches == get_canonical_id_matches(table,
                         unmatched_bs.super_organization_id,
                         unmatched_bs.pm_property_id,
                         unmatched_bs.tax_lot_id,
                         unmatched_bs.custom_id_1)
        merges == id_merges(id_matches, unmatched_pk, unmatched_pk + 1)
    IN  [id_matches |-> id_matches,
         merges |-> merges,
         canonical_snapshot |->
            [i \in DOMAIN merges |-> unmatched_pk + i],
         audit |-> [i \in DOMAIN merges |->
                      [action |-> "save_system_match",
                       canon |-> merges[i].can_snap]],
         result |-> IF id_matches = {} THEN NoneVal
                    ELSE unmatched_pk + Len(merges)]

\* handle_id_matches is applied to one unmatched snapshot
Call_handle_id_matches ==
    /\ call = NoCall
    /\ \E table \in CanonicalTables \cup ActiveTables,
          unmatched_bs \in UnmatchedRows :
        /\ call' = [op |-> "handle_id_matches", table |-> table,
                    unmatched_bs |-> unmatched_bs,
                    out |-> handle_id_matches(table, unmatched_bs,
                                              Len(table) + 1)]
        /\ UNCHANGED pipeline_vars

(***************************************************************************)
(* Fuzzy matching of one record.  n.search(building, min_threshold) of the *)
(* ngram library returns the indexed strings whose similarity to the query *)
(* is at least the threshold, the most similar first.  Similarities and    *)
(* thresholds are kept in hundredths.                                      *)
(***************************************************************************)
MaxCandidates == 2

MATCH_MED_THRESHOLD == 70

Similarities == {0, 29, 30, 69, 70, 71, 100}
MinThresholds == {30, 50}

\* the similarities of the indexed canonical fingerprints to one query
CandidateSets ==
    {S \in SUBSET Similarities : Cardinality(S) <= MaxCandidates}

\* n.search: the similarities that reach the threshold, in descending order
RECURSIVE ngram_search(_, _)
ngram_search(sims, threshold) ==
    LET hits == {x \in sims : x >= threshold}
    IN  IF hits = {} THEN << >>
        ELSE LET top == CHOOSE x \in hits : \A y \in hits : y <= x
             IN  <<top>> \o ngram_search(hits \ {top}, threshold)

\* a variant that also takes a confidence equal to the medium threshold
\* for a possible match
handle_results_le(results) ==
    LET confidence == results[1]
    IN  [confidence |-> confidence,
         match_type |-> IF confidence <= MATCH_MED_THRESHOLD
                        THEN POSSIBLE_MATCH ELSE SYSTEM_MATCH]

\* handle_results: the closest match is saved, as a possible match below
\* the medium threshold and as a system match otherwise
handle_results(results) ==
    LET confidence == results[1]
    IN  [confidence |-> confidence,
         match_type |-> IF confidence < MATCH_MED_THRESHOLD
                        THEN POSSIBLE_MATCH ELSE SYSTEM_MATCH]

\* one pass of the n-gram loop of _match_buildings: the record is merged
\* with its closest match or, without results, promoted to a canonical
\* building of its own
match_one(sims, min_threshold) ==
    LET results == ngram_search(sims, min_threshold)
    IN  IF results # << >>
        THEN [merged |-> TRUE, promoted |-> FALSE,
              saved |-> handle_results(results)]
        ELSE [merged |-> FALSE, promoted |-> TRUE,
              saved |-> [confidence |-> NoneVal, match_type |-> "none"]]

\* one unmatched record goes through the n-gram loop
Call_match_one ==
    /\ call = NoCall
    /\ \E sims \in CandidateSets, min_threshold \in MinThresholds :
        /\ call' = [op |-> "match_one", sims |-> sims,
                    min_threshold |-> min_threshold,
                    out |-> match_one(sims, min_threshold)]
        /\ UNCHANGED pipeline_vars

(***************************************************************************)
(* export_buildings.  The exporters live in the exporter module, so which  *)
(* export types have one is an input of the call.  The outcome records the *)
(* values written to export_buildings__<export_id>, the export files       *)
(* produced, the files left on disk, the uploads and whether the task      *)
(* raised.                                                                 *)
(***************************************************************************)
MaxBuildings == 2

EXPORT_ERROR == -1

ExportTypes == {"csv", "xls", "pdf"}

\* a variant that calls the exporter without looking whether there is one
export_buildings_unchecked(export_type, exporters, count) ==
    IF export_type \notin exporters
    THEN [writes |-> << >>, produced |-> 0, files |-> 0, uploads |-> 0,
          raised |-> TRUE]
    ELSE [writes |-> <<count>>, produced |-> 1, files |-> 0, uploads |-> 1,
          raised |-> FALSE]

\* export_buildings: without an exporter for the type the progress value
\* is set to -1 and the task returns; otherwise the file is exported,
\* uploaded and removed and the progress value is set to the row count
export_buildings(export_type, exporters, count) ==
    IF export_type \notin exporters
    THEN [writes |-> <<EXPORT_ERROR>>, produced |-> 0, files |-> 0,
          uploads |-> 0, raised |-> FALSE]
    ELSE [writes |-> <<count>>, produced |-> 1, files |-> 0, uploads |-> 1,
          raised |-> FALSE]

Call_export_buildings ==
    /\ call = NoCall
    /\ \E export_type \in ExportTypes, exporters \in SUBSET ExportTypes,
       count \in 0..MaxBuildings :
        /\ call' = [op |-> "export_buildings", export_type |-> export_type,
                    exporters |-> exporters, count |-> count,
                    out |-> export_buildings(export_type, exporters, count)]
        /\ UNCHANGED pipeline_vars

(***************************************************************************)
(* add_buildings.  The outcome records the percentage_done values written  *)
(* to the project's status key, each as the fraction <<n, d>>, and whether *)
(* the task raised.  float(x) / 0 raises ZeroDivisionError.                *)
(***************************************************************************)
Percent(n) == <<n, 1>>

\* the branch taken without select_all_checkbox: one write per selected
\* building, the division guarded by try/except
add_selected(selected) ==
    [writes |-> <<Percent(0)>>
                  \o [i \in 1..selected |-> <<100 * i, selected>>]
                  \o <<Percent(100)>>,
     raised |-> FALSE]

\* the branch taken with select_all_checkbox: every building of the search
\* result is added, then the selected ones are taken out again
add_all(selected, count) ==
    LET denominator == count - selected
    IN  IF denominator = 0 /\ count + selected > 0
        THEN [writes |-> <<Percent(0), Percent(10)>>, raised |-> TRUE]
        ELSE [writes |-> <<Percent(0), Percent(10)>>
                           \o [i \in 1..count |-> <<100 * i, denominator>>]
                           \o [j \in 1..selected |->
                                 <<100 * (denominator - selected + count + j),
                                   denominator>>]
                           \o <<Percent(100)>>,
              raised |-> FALSE]

add_buildings(select_all_checkbox, selected, count) ==
    IF ~select_all_checkbox THEN add_selected(selected)
    ELSE add_all(selected, count)

Call_add_buildings ==
    /\ call = NoCall
    /\ \E select_all_checkbox \in BOOLEAN, selected \in 0..MaxBuildings,
       count \in 0..MaxBuildings :
        /\ call' = [op |-> "add_buildings",
                    select_all_checkbox |-> select_all_checkbox,
                    selected |-> selected, count |-> count,
                    out |-> add_buildings(select_all_checkbox, selected,
                                          count)]
        /\ UNCHANGED pipeline_vars

(***************************************************************************)
(* One _match_buildings run, record by record.  A record stands for a      *)
(* physical building: two records of one building have identical          *)
(* identifiers and identical descriptive fields, records of different      *)
(* buildings share no identifier and are less similar than the minimum     *)
(* threshold.  has_ids tells whether the identifiers are non-empty.  pool  *)
(* counts the active canonical buildings of the organization per physical  *)
(* building.  The outcome lists, in order, what was done to which record   *)
(* of the batch.                                                           *)
(***************************************************************************)
MaxBatch == 2

Buildings == {1, 2}

BatchRecords == [building : Buildings, has_ids : BOOLEAN]

Batches == UNION {[1..n -> BatchRecords] : n \in 0..MaxBatch}

Pools == [Buildings -> 0..1]

Event(ev, k) == [ev |-> ev, k |-> k]

\* the records for which handle_id_matches returns a match: those with an
\* identifier shared with an active canonical snapshot
newly_matched(pool, batch) ==
    {k \in DOMAIN batch : batch[k].has_ids /\ pool[batch[k].building] > 0}

\* a variant that leaves the merged records among the unmatched ones
exclude_none(batch, matched) ==
    [k \in DOMAIN batch |-> k]

\* unmatched_buildings.exclude(pk__in=newly_matched_building_pks)
exclude(batch, matched) ==
    LET Unmatched(k) == k \notin matched
    IN  SelectSeq([k \in DOMAIN batch |-> k], Unmatched)

\* the pass over the unmatched records that calls handle_id_matches
id_pass(pool, batch) ==
    LET Matched(k) == k \in newly_matched(pool, batch)
        matches == SelectSeq([k \in DOMAIN batch |-> k], Matched)
    IN  [i \in DOMAIN matches |-> Event("id_merge", matches[i])]

\* a variant that promotes the first record left and stops
promote_first(rest) ==
    IF rest = << >> THEN << >> ELSE <<Event("promote", Head(rest))>>

\* without canonical buildings every record left is promoted
RECURSIVE promote_all(_)
promote_all(rest) ==
    IF rest = << >> THEN << >>
    ELSE <<Event("promote", Head(rest))>> \o promote_all(Tail(rest))

\* the n-gram loop: each record left is searched in the index built from
\* the canonical buildings found before the loop, and merged or promoted
RECURSIVE ngram_loop(_, _, _)
ngram_loop(index, batch, rest) ==
    IF rest = << >> THEN << >>
    ELSE LET k == Head(rest)
         IN  <<Event("search", k),
               IF index[batch[k].building] > 0
               THEN Event("merge", k) ELSE Event("promote", k)>>
             \o ngram_loop(index, batch, Tail(rest))

\* the canonical buildings after the run: one more for each promotion
promoted_pool(pool, batch, events) ==
    [b \in Buildings |->
        pool[b] + Cardinality({i \in DOMAIN events :
                                 /\ events[i].ev = "promote"
                                 /\ batch[events[i].k].building = b})]

match_batch(pool, batch) ==
    LET rest == exclude(batch, newly_matched(pool, batch))
        first == id_pass(pool, batch)
        then == IF rest = << >> THEN << >>
                ELSE IF \A b \in Buildings : pool[b] = 0
                     THEN promote_all(rest)
                     ELSE ngram_loop(pool, batch, rest)
    IN  [events |-> first \o then,
         pool |-> promoted_pool(pool, batch, then),
         matching_done |-> TRUE]

Call_match_batch ==
    /\ call = NoCall
    /\ \E pool \in Pools, batch \in Batches :
        /\ call' = [op |-> "_match_buildings", pool |-> pool,
                    batch |-> batch, out |-> match_batch(pool, batch)]
        /\ UNCHANGED pipeline_vars

(***************************************************************************)
(* The deletion of _remap_data, row by row.  A BuildingSnapshot row has    *)
(* its import file, its source type and whether some row names it as a     *)
(* parent.                                                                 *)
(***************************************************************************)
MaxSnapshots == 2

MAPPED_TYPES == {"ASSESSED_BS", "PORTFOLIO_BS", "GREEN_BUTTON_BS"}

BuildingSnapshots ==
    [import_file : {1, 2},
     source_type : MAPPED_TYPES \cup {"ASSESSED_RAW", "COMPOSITE_BS"},
     has_children : BOOLEAN]

\* a variant that deletes the mapped rows of the file, children or not
remap_delete_all(table, import_file) ==
    {pk \in DOMAIN table :
        /\ table[pk].import_file = import_file
        /\ table[pk].source_type \in MAPPED_TYPES}

\* the rows that BuildingSnapshot.objects.filter(import_file=...,
\* source_type__in=...).exclude(children__isnull=False).delete() deletes
remap_delete(table, import_file) ==
    {pk \in DOMAIN table :
        /\ table[pk].import_file = import_file
        /\ table[pk].source_type \in MAPPED_TYPES
        /\ ~table[pk].has_children}

Call_remap_delete ==
    /\ call = NoCall
    /\ \E n \in 0..MaxSnapshots, import_file \in {1, 2} :
         \E table \in [1..n -> BuildingSnapshots] :
            /\ call' = [op |-> "_remap_data", table |-> table,
                        import_file |-> import_file,
                        deleted |-> remap_delete(table, import_file)]
            /\ UNCHANGED pipeline_vars

(***************************************************************************)
(* The reverse index of the fuzzy matcher.  canonicals lists the        *)
(* descriptive values of the canonical snapshots, the pk of a snapshot     *)
(* being its place in the list; the n-gram index holds their fingerprints  *)
(* and can_rev_idx leads from a fingerprint back to a pk.                  *)
(***************************************************************************)
MaxIndexed == 2

\* descriptive values of canonical snapshots; the first two differ in case
\* only
CanonicalValues == {<<<<"a">>>>, <<<<"A">>>>, <<<<"a", "a">>>>}

\* a variant that keeps the first snapshot listed with a fingerprint
can_rev_idx_first(canonicals) ==
    [f \in {_stringify(canonicals[pk]) :
               pk \in DOMAIN canonicals} |->
        CHOOSE pk \in DOMAIN canonicals :
            /\ _stringify(canonicals[pk]) = f
            /\ \A other \in DOMAIN canonicals :
                  _stringify(canonicals[other]) = f => pk <= other]

\* {_stringify(value[1:]): value[0] for value in canonical_buildings}: a
\* later snapshot replaces an earlier one with the same fingerprint
can_rev_idx(canonicals) ==
    [f \in {_stringify(canonicals[pk]) :
               pk \in DOMAIN canonicals} |->
        CHOOSE pk \in DOMAIN canonicals :
            /\ _stringify(canonicals[pk]) = f
            /\ \A other \in DOMAIN canonicals :
                  _stringify(canonicals[other]) = f => other <= pk]

\* the outcomes of the n-gram loop for one record whose similarity to each
\* indexed fingerprint is given by sims: the save_snapshot_match calls made
\* for it (one with the closest fingerprint, any of them on a tie) and
\* whether a lookup failed
fuzzy_merge(canonicals, sims, min_threshold) ==
    LET index == {_stringify(canonicals[pk]) : pk \in DOMAIN canonicals}
        results == ngram_search({sims[f] : f \in index}, min_threshold)
        rev == can_rev_idx(canonicals)
    IN  IF results = << >>
        THEN {[merges |-> << >>, promoted |-> TRUE, error |-> FALSE]}
        ELSE {IF f \in DOMAIN rev
              THEN [merges |-> <<[can_snap |-> rev[f],
                                  confidence |->
                                     handle_results(results).confidence,
                                  match_type |->
                                     handle_results(results).match_type]>>,
                    promoted |-> FALSE, error |-> FALSE]
              ELSE [merges |-> << >>, promoted |-> FALSE, error |-> TRUE] :
                 f \in {g \in index : sims[g] = results[1]}}

Call_fuzzy_merge ==
    /\ call = NoCall
    /\ \E n \in 0..MaxIndexed, min_threshold \in MinThresholds :
         \E canonicals \in [1..n -> CanonicalValues],
            sims \in [{_stringify(v) : v \in CanonicalValues} -> {0, 50, 100}] :
           \E out \in fuzzy_merge(canonicals, sims, min_threshold) :
              /\ call' = [op |-> "fuzzy_merge",
                          canonicals |-> canonicals,
                          sims |-> sims, min_threshold |-> min_threshold,
                          out |-> out]
              /\ UNCHANGED pipeline_vars

(***************************************************************************)
(* Helpers of the properties                                               *)
(***************************************************************************)
\* the tasks of a given name waiting in the queue
CountOf(q, name) ==
    LET S == {t \in BagToSet(q) : t.name = name}
        RECURSIVE Sum(_)
        Sum(T) == IF T = {} THEN 0
                  ELSE LET t == CHOOSE x \in T : TRUE
                       IN  CopiesIn(t, q) + Sum(T \ {t})
    IN  Sum(S)

ChunkName(stage) ==
    CASE stage = "save_raw_data" -> "_save_raw_data_chunk"
      [] stage = "map_data" -> "map_row_chunk"
      [] OTHER -> "_delete_organization_buildings_chunk"

CallbackName(stage) ==
    CASE stage = "save_raw_data" -> "finish_raw_save"
      [] stage = "map_data" -> "finish_mapping"
      [] OTHER -> "finish_delete"

\* chunk tasks of fan-out c of a stage that have not run yet
ChunksPending(stage, c) ==
    \E t \in BagToSet(queue) : t.name = ChunkName(stage) /\ t.chord = c

\* the continuation of fan-out c is queued and has not run yet
CallbackPending(stage, c) ==
    \E t \in BagToSet(queue) : t.name = CallbackName(stage) /\ t.chord = c

(***************************************************************************)
(* Properties                                                              *)
(***************************************************************************)
Flags == <<raw_save_done, mapping_done, matching_done>>

C2_EmptyContinuation ==
    /\ (ret.op = "_save_raw_data" /\ source_type = "Assessed Raw"
          /\ file_rows = 0) =>
          (raw_save_done /\ cache["save_raw_data"] = Hundred)
    /\ (ret.op = "_map_data" /\ raw_save_done /\ snapshots.raw = 0) =>
          (mapping_done /\ cache["map_data"] = Hundred)

\* C3: once the last chunk of a fan-out has incremented the counter, the
\* contributions of its chunks sum to exactly 100.
C3_ContributionsSum ==
    \A stage \in Stages, c \in 1..MaxChords :
        LET ch == chords[stage][c]
        IN  (ch.total > 0 /\ ch.done = ch.total) => ch.contrib = Hundred

\* C4: no step lowers the value stored under a job key, the reset by
\* remap_data that starts a new mapping job apart.
C4_Monotone ==
    [][ret'.op = "remap_data"
         \/ \A k \in Keys : RatLE(cache[k], cache'[k])]_vars

\* C5: whenever a done flag of the import file is set, the progress stored
\* under the key of its stage is exactly 100.
C5_DoneIsHundred ==
    /\ raw_save_done => cache["save_raw_data"] = Hundred
    /\ mapping_done => cache["map_data"] = Hundred
    /\ matching_done => cache["match_buildings"] = Hundred

\* C6: every stored progress value lies in [0, 100].
C6_Range ==
    \A k \in Keys : RatLE(Zero, cache[k]) /\ RatLE(cache[k], Hundred)

\* C7: a step of _save_raw_data with raw_save_done, of _map_data with
\* mapping_done or of match_buildings with matching_done changes no
\* snapshot and no canonical building, queues no task, schedules no delayed
\* message, leaves the flags alone and returns status 'warning'.
C7_DoneIsNoOp ==
    [][(\/ ret'.op = "_save_raw_data" /\ raw_save_done
        \/ ret'.op = "_map_data" /\ mapping_done
        \/ ret'.op = "match_buildings" /\ matching_done)
       => /\ snapshots' = snapshots
          /\ canonical_buildings' = canonical_buildings
          /\ queue' \sqsubseteq queue
          /\ waiting' \sqsubseteq waiting
          /\ chords' = chords
          /\ Flags' = Flags
          /\ ret'.status = "warning"]_vars

\* match_buildings has returned its warning for a file whose matching is
\* done
C7_Witness ==
    /\ matching_done
    /\ ret.op = "match_buildings"
    /\ ret.status = "warning"

RawSaveOutstanding ==
    \/ CountOf(queue, "_save_raw_data_chunk") > 0
    \/ CountOf(queue, "_save_raw_green_button_data") > 0

\* C8: no map_row_chunk is queued while raw-data saving of the file is
\* outstanding, and no _match_buildings is queued while a map_row_chunk of
\* the file is outstanding.
C8_StageOrder ==
    [][/\ CountOf(queue', "map_row_chunk") > CountOf(queue, "map_row_chunk")
            => ~RawSaveOutstanding
       /\ CountOf(queue', "_match_buildings")
            > CountOf(queue, "_match_buildings")
            => CountOf(queue, "map_row_chunk") = 0]_vars

\* C9: match_buildings without mapping_done and _map_data without
\* raw_save_done schedule exactly one delayed message of their stage, touch
\* no record, flag or progress value, queue no task and return a status
\* whose message says they are waiting; a delayed message delivered once the
\* flag is set queues the work of the stage.
C9_Waiting ==
    [][/\ (ret'.op = "match_buildings" /\ ~matching_done /\ ~mapping_done)
            => /\ BagCardinality(waiting') = BagCardinality(waiting)
                     + (IF kicks' = kicks THEN 0 ELSE 1)
               /\ \E m \in BagToSet(waiting') :
                     /\ m.stage = "match_buildings"
                     /\ CopiesIn(m, waiting') = CopiesIn(m, waiting) + 1
               /\ queue' = queue
               /\ UNCHANGED <<snapshots, canonical_buildings, cache, Flags,
                              chords>>
               /\ ret'.status = "error"
               /\ ret'.message = "waiting for mapping to complete"
       /\ (ret'.op = "_map_data" /\ ~mapping_done /\ ~raw_save_done)
            => /\ BagCardinality(waiting') = BagCardinality(waiting) + 1
               /\ \E m \in BagToSet(waiting') :
                     /\ m.stage = "map_data"
                     /\ CopiesIn(m, waiting') = CopiesIn(m, waiting) + 1
               /\ queue' \sqsubseteq queue
               /\ BagCardinality(queue') = BagCardinality(queue) - 1
               /\ UNCHANGED <<snapshots, canonical_buildings, cache, Flags,
                              chords>>
               /\ ret'.status = "error"
               /\ ret'.message = "waiting for raw data save."
       /\ (ret'.op = "match_buildings" /\ kicks' = kicks /\ ~matching_done
             /\ mapping_done)
            => CountOf(queue', "_match_buildings")
                 = CountOf(queue, "_match_buildings") + 1
       /\ (ret'.op = "map_data" /\ kicks' = kicks)
            => CountOf(queue', "_map_data") = CountOf(queue, "_map_data") + 1
       /\ (ret'.op = "_map_data" /\ ~mapping_done /\ raw_save_done)
            => CountOf(queue', "map_row_chunk")
                 = CountOf(queue, "map_row_chunk")
                     + batch_count(snapshots.raw, BATCH_SIZE)]_vars

\* a delayed match_buildings message, delivered after mapping was done, has
\* queued _match_buildings, and a delayed map_data message has led _map_data
\* to queue its chunks
C9_Witness ==
    /\ \E t \in BagToSet(queue) : t.name = "_match_buildings" /\ t.gen >= 1
    /\ ret.op = "match_buildings"
    /\ ret.status = "success"

\* C10: no re-invocation is scheduled once the validity window of the
\* chain has passed.
C10_ChainStops ==
    \A m \in BagToSet(waiting) : QueuedAfter(m) <= Validity(m)

\* the step just taken removed task t from the queue, that is, ran it
Stepped(t) == CopiesIn(t, queue') < CopiesIn(t, queue)

\* C14: a _match_buildings run that finds no canonical building searches
\* nothing and promotes every unmatched record: it enters the promotion
\* loop over all unmatched records, each pass of 100 adds as many canonical
\* buildings as it handles records and merges none, the loop ends only
\* past the last record, and the run ends with matching_done set and the
\* match_buildings progress at 100.
C14_Bootstrap ==
    [][\A t \in BagToSet(queue) :
          (t.name = "_match_buildings" /\ Stepped(t)) =>
            /\ (t.pc = "start" /\ canonical_buildings = 0) =>
                  /\ snapshots' = snapshots
                  /\ IF snapshots.unmatched = 0
                     THEN /\ matching_done'
                          /\ cache'["match_buildings"] = Hundred
                          /\ canonical_buildings' = 0
                     ELSE \E u \in BagToSet(queue') :
                            /\ CopiesIn(u, queue') > CopiesIn(u, queue)
                            /\ u.name = "_match_buildings"
                            /\ u.pc = "promote"
                            /\ u.i = 0
                            /\ u.size = snapshots.unmatched
            /\ t.pc = "promote" =>
                  /\ t.i < t.size
                  /\ canonical_buildings' = canonical_buildings
                        + Min(BATCH_SIZE, t.size - t.i)
                  /\ snapshots'.merged = snapshots.merged
                  /\ \E u \in BagToSet(queue') :
                        /\ CopiesIn(u, queue') > CopiesIn(u, queue)
                        /\ u.i = t.i + BATCH_SIZE
                        /\ u.size = t.size
                        /\ u.pc = IF u.i >= t.size THEN "finish_promote"
                                  ELSE "promote"
            /\ t.pc = "finish_promote" =>
                  /\ t.i >= t.size
                  /\ matching_done'
                  /\ cache'["match_buildings"] = Hundred
                  /\ canonical_buildings' = canonical_buildings]_vars

\* a run over more than one pass of 100 records has promoted all of them
\* and ended
C14_Witness ==
    /\ ret.op = "_match_buildings"
    /\ ret.status = "none"
    /\ matching_done
    /\ canonical_buildings = 100 * MaxChunks - 50
    /\ snapshots.promoted = canonical_buildings
    /\ snapshots.unmatched = 0
    /\ cache["match_buildings"] = Hundred

\* a field without its case and punctuation; a missing field counts as empty
field_text(value) ==
    IF value = None THEN << >> ELSE PUNCT_REGEX_sub(lower(value))

\* two field lists that differ only in letter case and in punctuation
SameText(v, w) ==
    /\ Len(v) = Len(w)
    /\ \A i \in 1..Len(v) : field_text(v[i]) = field_text(w[i])

\* no space at either end and no two spaces in a row
SingleSpaced(str) ==
    /\ str # << >> => (str[1] # " " /\ str[Len(str)] # " ")
    /\ \A i \in 1..(Len(str) - 1) : ~(str[i] = " " /\ str[i + 1] = " ")

\* C17: the fingerprint of a field list is the fingerprint of every field
\* list that differs from it only in letter case and punctuation, and its
\* tokens are joined by single spaces.
C17_Fingerprint ==
    call.op = "_stringify" =>
        /\ \A w \in FieldLists :
              SameText(call.values, w) => _stringify(w) = call.result
        /\ SingleSpaced(call.result)

\* the identifiers of a row that are not empty
OwnIds(row) ==
    {row.pm_property_id, row.tax_lot_id, row.custom_id_1} \ {""}

\* the active canonical snapshots of the record's organization that share
\* a non-empty identifier value with it, under whatever field names
SharingIds(table, row) ==
    {pk \in DOMAIN table :
        /\ table[pk].active
        /\ table[pk].super_organization_id = row.super_organization_id
        /\ OwnIds(table[pk]) \cap OwnIds(row) # {}}

\* C11: get_canonical_id_matches returns exactly the active canonical
\* snapshots of the organization of which some identifier field equals some
\* non-empty probe identifier; without a non-empty probe it returns none.
C11_IdMatches ==
    call.op = "handle_id_matches" =>
        /\ call.out.id_matches = SharingIds(call.table, call.unmatched_bs)
        /\ OwnIds(call.unmatched_bs) = {} => call.out.id_matches = {}

\* a probe whose tax_lot_id equals the pm_property_id of a canonical
\* snapshot, and no other identifier pair, has matched that snapshot
C11_Witness ==
    /\ call.op = "handle_id_matches"
    /\ call.out.id_matches = {1}
    /\ call.unmatched_bs.tax_lot_id = "a"
    /\ call.unmatched_bs.pm_property_id = ""
    /\ call.unmatched_bs.custom_id_1 = "b"
    /\ call.table[1].pm_property_id = "a"
    /\ call.table[1].tax_lot_id = ""
    /\ call.table[1].custom_id_1 = ""

Max(S) == CHOOSE x \in S : \A y \in S : y <= x

\* C15: the top result of a record is saved as SYSTEM_MATCH when its
\* confidence is at least 0.7, as POSSIBLE_MATCH when it is at least the
\* minimum threshold and below 0.7; when no result reaches the minimum
\* threshold nothing is merged and the record is promoted.
C15_Classification ==
    call.op = "match_one" =>
        LET out == call.out
            reached == call.sims # {}
                         /\ Max(call.sims) >= call.min_threshold
        IN  /\ reached =>
                  /\ out.merged /\ ~out.promoted
                  /\ out.saved.confidence = Max(call.sims)
                  /\ Max(call.sims) >= 70
                        => out.saved.match_type = "SYSTEM_MATCH"
                  /\ Max(call.sims) < 70
                        => out.saved.match_type = "POSSIBLE_MATCH"
            /\ ~reached => (~out.merged /\ out.promoted)

\* a top result of exactly 0.7 has been saved as a system match
C15_Witness ==
    /\ call.op = "match_one"
    /\ call.sims = {30, 70}
    /\ call.out.merged
    /\ call.out.saved.confidence = 70
    /\ call.out.saved.match_type = "SYSTEM_MATCH"

\* C19: export_buildings with an export type that has no exporter leaves
\* the sentinel -1 as the progress value and returns without raising,
\* without producing an export file and without uploading anything.
C19_UnknownExportType ==
    (call.op = "export_buildings" /\ call.export_type \notin call.exporters)
        => /\ call.out.writes # << >>
           /\ call.out.writes[Len(call.out.writes)] = -1
           /\ ~call.out.raised
           /\ call.out.produced = 0
           /\ call.out.uploads = 0

\* an export of a type without exporter, other types having one, has ended
\* with the sentinel
C19_Witness ==
    /\ call.op = "export_buildings"
    /\ call.export_type = "pdf"
    /\ call.exporters = {"csv", "xls"}
    /\ call.out.writes = <<-1>>
    /\ ~call.out.raised

\* C20: add_buildings never propagates a division by zero: for every
\* selection and every size of the select-all search result the task runs
\* to completion and the last progress value written is 100.
C20_NoDivisionByZero ==
    call.op = "add_buildings" =>
        /\ ~call.out.raised
        /\ call.out.writes[Len(call.out.writes)] = <<100, 1>>

\* the positions of the outcome of a run at which something of the given
\* kinds was done
EventsOf(out, kinds) == {i \in DOMAIN out.events : out.events[i].ev \in kinds}

\* C13: in one run the exact-identifier pass over all records comes before
\* any fuzzy search; a record merged by the exact pass is neither searched
\* nor merged again nor promoted; and when every record of the batch shares
\* a non-empty identifier with an active canonical snapshot, all of them
\* merge by exact match, no search is made and matching_done is set.
C13_ExactFirst ==
    call.op = "_match_buildings" =>
        LET out == call.out
            ev == out.events
            exact == EventsOf(out, {"id_merge"})
            later == EventsOf(out, {"search", "merge", "promote"})
            shared == {k \in DOMAIN call.batch :
                         /\ call.batch[k].has_ids
                         /\ call.pool[call.batch[k].building] > 0}
        IN  /\ \A i \in exact, j \in later : i < j /\ ev[i].k # ev[j].k
            /\ {ev[i].k : i \in exact} = shared
            /\ shared = DOMAIN call.batch
                  => /\ later = {}
                     /\ Cardinality(exact) = Len(call.batch)
                     /\ out.matching_done

\* a batch of two has been matched of which the second record merged by
\* exact match and the first went through the fuzzy search
C13_Witness ==
    /\ call.op = "_match_buildings"
    /\ Len(call.batch) = 2
    /\ call.out.events = <<Event("id_merge", 2), Event("search", 1),
                           Event("promote", 1)>>

\* C16: after a matching run no physical building has more than one active
\* canonical building.
C16_OneCanonicalPerBuilding ==
    call.op = "_match_buildings" =>
        \A b \in Buildings : call.out.pool[b] <= 1

\* C21: _remap_data deletes only mapped records of the given import file
\* that have no child; raw records, records of other import files and every
\* record with a child stay.
C21_RemapKeepsParents ==
    call.op = "_remap_data" =>
        \A pk \in DOMAIN call.table :
            LET row == call.table[pk]
            IN  pk \in call.deleted
                  <=> /\ row.source_type \in {"ASSESSED_BS", "PORTFOLIO_BS",
                                              "GREEN_BUTTON_BS"}
                      /\ row.import_file = call.import_file
                      /\ ~row.has_children

\* a remap has deleted one mapped record and kept a mapped record of the
\* same file that has a child
C21_Witness ==
    /\ call.op = "_remap_data"
    /\ Len(call.table) = 2
    /\ call.deleted = {1}
    /\ call.table[2].import_file = call.import_file
    /\ call.table[2].source_type = "ASSESSED_BS"
    /\ call.table[2].has_children

C23_ChunkedDelete ==
    [][\A t \in BagToSet(queue) :
         LET n == snapshots.raw + snapshots.unmatched + snapshots.promoted
                    + snapshots.merged + snapshots.composite
             left == snapshots'.raw + snapshots'.unmatched
                       + snapshots'.promoted + snapshots'.merged
                       + snapshots'.composite
             chunks == {u \in BagToSet(queue') :
                          u.name = "_delete_organization_buildings_chunk"}
             key == "delete_organization_buildings"
         IN  /\ (Stepped(t) /\ t.name = "_delete_organization_buildings"
                   /\ n > 0)
                  => /\ BagCardinality(queue')
                          = BagCardinality(queue) + (n + t.size - 1) \div t.size
                     /\ CountOf(queue', "_delete_organization_buildings_chunk")
                          = (n + t.size - 1) \div t.size
                     /\ \A u \in chunks : u.size >= 1 /\ u.size <= t.size
                     /\ \E u \in chunks :
                          n = u.size + t.size * (CountOf(queue',
                                "_delete_organization_buildings_chunk") - 1)
                     /\ cache'[key] = <<0, 1>>
             /\ (Stepped(t) /\ t.name = "_delete_organization_buildings"
                   /\ n = 0)
                  => /\ cache'[key] = <<100, 1>>
                     /\ queue' = Take(queue, t)
             /\ (Stepped(t) /\ t.name = "finish_delete")
                  => cache'[key] = <<100, 1>> /\ left = 0]_vars

\* a deletion of 150 snapshots in chunks of 100 has been joined by
\* finish_delete
C23_Witness ==
    /\ \E c \in 1..MaxChords :
          /\ chords["delete_organization_buildings"][c].total = 2
          /\ chords["delete_organization_buildings"][c].fin = 1
    /\ cache["delete_organization_buildings"] = <<100, 1>>
    /\ snapshots = [raw |-> 0, unmatched |-> 0, promoted |-> 0, merged |-> 0,
                    composite |-> 0]

\* C24: with k exact-identifier matches handle_id_matches makes exactly k
\* merges in sequence: the first joins the unmatched record with a matched
\* canonical snapshot, each later one joins the result of the merge before
\* it with the next matched snapshot, every merge sets its result as
\* canonical snapshot and writes one audit entry, and the result of the
\* last merge is returned; with no match nothing is merged, nothing is
\* written and nothing is returned.
C24_ChainedMerges ==
    call.op = "handle_id_matches" =>
        LET out == call.out
            matches == SharingIds(call.table, call.unmatched_bs)
            k == Cardinality(matches)
            original == Len(call.table) + 1
        IN  /\ Len(out.merges) = k
            /\ Len(out.audit) = k
            /\ Len(out.canonical_snapshot) = k
            /\ {out.merges[i].can_snap : i \in 1..k} = matches
            /\ \A i \in 1..k :
                  /\ out.merges[i].unmatched
                       = IF i = 1 THEN original
                         ELSE out.canonical_snapshot[i - 1]
                  /\ out.audit[i].canon = out.merges[i].can_snap
            /\ out.result = IF k = 0 THEN NoneVal
                            ELSE out.canonical_snapshot[k]

\* an unmatched record with two exact matches has been merged twice, the
\* second time as the result of the first merge
C24_Witness ==
    /\ call.op = "handle_id_matches"
    /\ Len(call.out.merges) = 2
    /\ call.out.merges[1].unmatched = 3
    /\ call.out.merges[2].unmatched = 4
    /\ call.out.result = 5

\* C25: when two canonical snapshots have the same fingerprint the reverse
\* index holds one entry for it, that of the snapshot listed last: a fuzzy
\* match merges the record into one canonical snapshot only, without an
\* error, and never into a snapshot that a later one shares its fingerprint
\* with.
C25_ReverseIndexCollapse ==
    call.op = "fuzzy_merge" =>
        LET can == call.canonicals
            out == call.out
            Shadowed(pk) == \E later \in DOMAIN can :
                               /\ later > pk
                               /\ _stringify(can[later]) = _stringify(can[pk])
        IN  /\ ~out.error
            /\ Len(out.merges) <= 1
            /\ \A i \in DOMAIN out.merges :
                  /\ out.merges[i].can_snap \in DOMAIN can
                  /\ ~Shadowed(out.merges[i].can_snap)
            /\ Cardinality(DOMAIN can_rev_idx(can))
                 = Cardinality({_stringify(can[pk]) : pk \in DOMAIN can})

\* a record has been merged into the second of two canonical snapshots of
\* different values and the same fingerprint
C25_Witness ==
    /\ call.op = "fuzzy_merge"
    /\ call.canonicals = <<<<<<"a">>>>, <<<<"A">>>>>>
    /\ Len(call.out.merges) = 1
    /\ call.out.merges[1].can_snap = 2

\* C26: when a run has set matching_done, every record of its batch has
\* received exactly one outcome: merged by the exact-identifier pass,
\* merged with the top fuzzy result, or promoted.
C26_OneOutcome ==
    (call.op = "_match_buildings" /\ call.out.matching_done) =>
        \A k \in DOMAIN call.batch :
            Cardinality({i \in EventsOf(call.out,
                                        {"id_merge", "merge", "promote"}) :
                            call.out.events[i].k = k}) = 1

\* a run has merged its first record by exact match and its second, which
\* has no identifiers, with the top fuzzy result
C26_Witness ==
    /\ call.op = "_match_buildings"
    /\ call.out.matching_done
    /\ call.out.events = <<Event("id_merge", 1), Event("search", 2),
                           Event("merge", 2)>>

\* C27: whatever the number of save_raw_data requests for the file, each
\* row of the file is stored as a raw snapshot at most once (a Green Button
\* file has no rows) and the save_raw_data progress never exceeds 100.
C27_SaveOnce ==
    /\ source_type # "Green Button Raw" => snapshots.raw <= file_rows
    /\ RatLE(cache["save_raw_data"], Hundred)

\* C28: when finish_delete sets the progress of the purge to 100, no
\* canonical building of the organization is left.
C28_CanonicalsDeletedFirst ==
    [][\A t \in BagToSet(queue) :
          (Stepped(t) /\ t.name = "finish_delete")
            => canonical_buildings' = 0]_vars

\* C29: remapping leaves the canonical state alone: _remap_data deletes no
\* mapped record that is the canonical snapshot of a canonical building,
\* and once records of the file have been merged remap_data answers with a
\* warning, queues nothing and deletes nothing.
C29_RemapKeepsCanonicals ==
    [][/\ \A t \in BagToSet(queue) :
            (Stepped(t) /\ t.name = "_remap_data")
              => snapshots'.promoted = snapshots.promoted
       /\ (kicks' < kicks /\ ret'.op = "remap_data" /\ snapshots.merged > 0)
            => /\ ret'.status = "warning"
               /\ queue' = queue
               /\ snapshots' = snapshots]_vars

\* the operations a caller invokes to start a job
KickoffOps == {"save_raw_data", "map_data", "match_buildings", "remap_data",
               "delete_organization_buildings"}

\* C18: the status object returned by a job-kickoff operation has a status
\* field that is one of 'success', 'warning', 'error'.
C18_KickoffStatus ==
    ret.op \in KickoffOps => ret.status \in {"success", "warning", "error"}

Next ==
    \/ save_raw_data
    \/ _save_raw_data
    \/ _save_raw_green_button_data
    \/ _save_raw_data_chunk
    \/ finish_raw_save
    \/ map_data
    \/ _map_data
    \/ map_row_chunk
    \/ finish_mapping
    \/ match_buildings
    \/ _match_buildings_start
    \/ _match_buildings_loop
    \/ _finish_matching
    \/ remap_data
    \/ _remap_data
    \/ delete_organization_buildings
    \/ _delete_organization_buildings
    \/ _delete_organization_buildings_chunk
    \/ finish_delete
    \/ _delete_canonical_buildings
    \/ Expire

Spec == Init /\ [][Next]_vars

SpecDeep == InitDeep /\ [][Next]_vars

\* no pipeline task is pending and none is requested: helpers and
\* standalone tasks are called one at a time
InitCalls ==
    /\ InitFile
    /\ InitNew
    /\ source_type = "Assessed Raw"
    /\ file_rows = 0
    /\ canonical_buildings = 0
    /\ kicks = 0

NextCalls ==
    \/ Call_stringify
    \/ Call_handle_id_matches
    \/ Call_match_one
    \/ Call_export_buildings
    \/ Call_add_buildings
    \/ Call_match_batch
    \/ Call_remap_delete
    \/ Call_fuzzy_merge

SpecCalls == InitCalls /\ [][NextCalls]_vars

====
